---- MODULE Spec2Model ----
(***************************************************************************)
(* Model of package dockertest (abema/dockertest).                         *)
(*                                                                         *)
(* src/docker.go holds two generations of the package one after the other: *)
(*   lines 1-256   the current one (error-returning API, docker-machine),  *)
(*   lines 258-580 the earlier one (testing.T API, boot2docker, the        *)
(*                 PostgreSQL preset and sqlExecRetry).                    *)
(* src/docker_test.go lines 44-120 hold the current ContainerID methods,   *)
(* lookup and AwaitReachable.                                              *)
(*                                                                         *)
(* The variable `version` says which generation a behaviour runs.  The     *)
(* container engine (docker) is an external program: every invocation of   *)
(* it has a nondeterministic outcome, constrained only by what the engine  *)
(* can do in its current state (it cannot kill a container that is not     *)
(* running, nor remove one that is running or absent).                     *)
(*                                                                         *)
(* Strings that the code trims, matches or compares are sequences of       *)
(* one-character strings; "" is << >>.                                     *)
(***************************************************************************)
EXTENDS Integers, Sequences, FiniteSets, TLC

\* ------------------------------------------------------------------ bounds

\* The calls in flight: two goroutines of one process, each making one
\* provisioning call (and then tearing down what it was given).
Procs == {1, 2}

\* Time is counted in ticks of 100 ms, the sleep of AwaitReachable.  The probe
\* timeout (60 s, 15 s in the PostgreSQL preset) is scaled down to this many
\* ticks.
MaxWaitTicks == 2

\* A connection attempt takes 0..MaxDialTicks ticks.
MaxDialTicks == 1

\* How many times a caller tears down the handle it was given.
MaxTeardowns == 2

\* ----------------------------------------------------------------- strings

Digits == {"0", "1", "2", "3", "4", "5", "6", "7", "8", "9"}

Lower == {"a", "b", "c", "d", "e", "f", "g", "h", "i", "j", "k", "l", "m",
          "n", "o", "p", "q", "r", "s", "t", "u", "v", "w", "x", "y", "z"}

Upper == {"A", "B", "C", "D", "E", "F", "G", "H", "I", "J", "K", "L", "M",
          "N", "O", "P", "Q", "R", "S", "T", "U", "V", "W", "X", "Y", "Z"}

\* White space as strings.TrimSpace sees it (the characters the model uses).
Space == {" ", "\t", "\n", "\r", "\f"}

RECURSIVE TrimLeft(_)
TrimLeft(s) ==
    IF s = << >> THEN << >>
    ELSE IF Head(s) \in Space THEN TrimLeft(Tail(s)) ELSE s

RECURSIVE TrimRight(_)
TrimRight(s) ==
    IF s = << >> THEN << >>
    ELSE IF s[Len(s)] \in Space THEN TrimRight(SubSeq(s, 1, Len(s) - 1)) ELSE s

\* strings.TrimSpace
TrimSpace(s) == TrimRight(TrimLeft(s))

\* A slip: any non-empty output of docker run is taken for an identifier.
validID_nonEmpty(s) == Len(s) >= 1

\* regexp ^([a-zA-Z0-9]+)$ of run
validID(s) ==
    /\ Len(s) >= 1
    /\ \A i \in 1..Len(s) : s[i] \in (Lower \cup Upper \cup Digits)

\* A slip: the image is never taken to be present.
Contains_never(out, name) == FALSE

\* A slip: the image is taken to be present whatever the listing says.
Contains_always(out, name) == TRUE

\* bytes.Contains(out, name)
Contains(out, name) ==
    \E i \in 0..(Len(out) - Len(name)) : SubSeq(out, i + 1, i + Len(name)) = name

\* fmt.Sprintf("%s:%d", ip, port): the host and the port, joined
Addr(host, p) == <<host, ":", p>>


\* ------------------------------------------------------------- environment

\* The image a call provisions, and an image whose name contains it.
Image == <<"p", "g">>

OtherImage == <<"p", "g", "x">>

\* The text `docker images --no-trunc` prints for a set of local images.
Listing(imgs) ==
    (IF Image \in imgs THEN Image \o <<"\n">> ELSE << >>)
        \o (IF OtherImage \in imgs THEN OtherImage \o <<"\n">> ELSE << >>)

\* The identifier the engine gives the container that call p starts.
ContainerName(p) == <<"c", IF p = 1 THEN "1" ELSE "2">>

Loopback == <<"1", "2", "7", ".", "0", ".", "0", ".", "1">>

\* Addresses the engine (docker inspect) and the machine report.
ContainerIP == <<"1", "7", "2", ".", "1">>

MachineIP == <<"1", "9", "2", ".", "1">>

NoRet == [how |-> "none"]

\* No command has been run: no listing from docker images, no result of
\* docker pull, no exit status and no standard output of docker run.
NoOutput == [listed |-> "no", listing |-> << >>, pulled |-> "no",
             ran |-> FALSE, exit |-> FALSE, stdout |-> << >>]

VARIABLES
    version,                \* "current" or "legacy": the generation that runs
    Debug,                  \* var Debug bool
    BindDockerToLocalhost,  \* var BindDockerToLocalhost string
    DockerMachineAvailable, \* var DockerMachineAvailable bool
    Boot2DockerAvailable,   \* var Boot2DockerAvailable bool (legacy)
    env,                    \* what exec.LookPath and testing.Short answer
    images,                 \* the engine's local images
    containers,             \* the engine's containers: absent, running, exited
    pc,                     \* where each call stands
    port,                   \* the external port each call chose
    containerID,            \* c of setupContainer
    output,                 \* history: what docker run gave the call
    ip,                     \* ip of lookup
    err,                    \* the error a call is about to return
    started,                \* what starting the machine gave: none, ok, failed
    ret,                    \* what the call returned to its caller
    cmds,                   \* history: the engine subcommands each call invoked
    ops,                    \* history: the Kill and Remove calls of each call
    probe,                  \* AwaitReachable: address, elapsed ticks, result
    retry                   \* sqlExecRetry: its locals and its history

vars == <<version, Debug, BindDockerToLocalhost, DockerMachineAvailable,
          Boot2DockerAvailable, env, images, containers, pc, port,
          containerID, output, ip, err, started, ret, cmds, ops, probe, retry>>

config == <<version, Debug, BindDockerToLocalhost, env>>

\* AwaitReachable: the address, the ticks elapsed since it was called, and
\* its result; as history, the tick at which the last connection attempt
\* started (none yet: before the call) and whether an attempt connected.
NoProbe == [addr |-> << >>, elapsed |-> 0, ok |-> FALSE, last |-> 0 - 1,
            connected |-> FALSE]

\* sqlExecRetry: maxTry, try, interval, and err as the number of the attempt
\* it comes from (0 for nil); the history of db.Exec results and of sleeps;
\* how the call ended and, for "failed %v times: %v", the two values printed.
NoRetry == [maxTry |-> 0, try |-> 0, interval |-> 0, err |-> 0,
            results |-> << >>, sleeps |-> << >>, state |-> "none",
            times |-> 0, cause |-> 0, direct |-> FALSE]

\* ------------------------------------------------------------------ engine

\* exec.Command(...) as runDockerCommand builds it: the subcommand, its
\* argument, and the channel (docker-machine ssh, or the local docker).
runDockerCommand(command, arg) ==
    [cmd |-> command, arg |-> arg, remote |-> DockerMachineAvailable]

\* runDockerCommand of the earlier generation: boot2docker ssh, or local
runDockerCommandT(command, arg) ==
    [cmd |-> command, arg |-> arg, remote |-> Boot2DockerAvailable]

Command(command, arg) ==
    IF version = "current" THEN runDockerCommand(command, arg)
    ELSE runDockerCommandT(command, arg)

\* The call whose container has identifier h, if any.
Named(h) == {q \in Procs : ContainerName(q) = h}

\* docker kill h: succeeds only on a running container, which then stops.
CanKill(h) == \E q \in Named(h) : containers[q] = "running"

Killed(h) == [q \in Procs |->
                 IF q \in Named(h) /\ containers[q] = "running"
                 THEN "exited" ELSE containers[q]]

\* docker rm -v h: succeeds only on a container that exists and has stopped.
CanRemove(h) == \E q \in Named(h) : containers[q] = "exited"

Removed(h) == [q \in Procs |->
                  IF q \in Named(h) /\ containers[q] = "exited"
                  THEN "absent" ELSE containers[q]]

\* What `docker run -d` can do for call p: its exit status, its standard
\* output, and the container it leaves.  A clean exit with the identifier on
\* standard output means the container runs; a failure may leave a container
\* that was created and never started; nothing, white space or error text on
\* standard output means that no container was started.
RunOutcomes(p) ==
    {[exit |-> FALSE, stdout |-> << >>, state |-> "absent"],
     [exit |-> FALSE, stdout |-> << >>, state |-> "exited"],
     [exit |-> TRUE, stdout |-> ContainerName(p) \o <<"\n">>, state |-> "running"]}
    \cup {[exit |-> TRUE, stdout |-> o, state |-> "absent"] :
             o \in {<< >>, <<"\n">>, <<"E", ":", " ", "x", "\n">>}}

\* A running container may stop by itself at any time.
ContainerExits(p) ==
    /\ containers[p] = "running"
    /\ containers' = [containers EXCEPT ![p] = "exited"]
    /\ UNCHANGED <<config, DockerMachineAvailable, Boot2DockerAvailable,
                   images, pc, port, containerID, output, ip, err, started,
                   ret, cmds, ops, probe, retry>>


\* ------------------------------------------- current generation: preflight

globals == <<DockerMachineAvailable, Boot2DockerAvailable>>

engine == <<images, containers>>

locals == <<port, containerID, output, ip, err, started, probe, retry>>

\* rand.Intn(n), sampled at both ends of its range [0, n)
Intn(n) == {0, n - 1}

\* A slip: the upper end of the range can be drawn.
randInt_inclusive(min, max) == {min + r : r \in Intn(max - min + 1)}

\* randInt(min, max)
randInt(min, max) == {min + r : r \in Intn(max - min)}

MinPort == 1024

MaxPort == 49150

\* The port-forwarding argument of SetupContainerWithEnv.
forward(p, containerPort) ==
    IF BindDockerToLocalhost /= << >>
    THEN <<Loopback, ":", p, ":", containerPort>>
    ELSE <<p, ":", containerPort>>

ContainerPort == 5432

\* What the caller of SetupContainerWithEnv receives.
Return(p, c, host, e) ==
    /\ ret' = [ret EXCEPT ![p] = [how |-> "return", c |-> c, ip |-> host,
                                  port |-> port[p], err |-> e]]
    /\ pc' = [pc EXCEPT ![p] = "returned"]

\* Whether the provisioning call of p is still running, or has returned and
\* its caller is at work.
During(p) == IF ret[p] = NoRet THEN "call" ELSE "teardown"

\* History: the command inv is run (cmd.Run, cmd.Output, cmd.CombinedOutput).
Invoke(p, inv) ==
    cmds' = [cmds EXCEPT ![p] = Append(@, [cmd |-> inv.cmd, arg |-> inv.arg,
                                           remote |-> inv.remote,
                                           during |-> During(p)])]

\* SetupContainerWithEnv, up to the call of setupContainer
SetupContainerWithEnv(p) ==
    /\ version = "current"
    /\ pc[p] = "idle"
    /\ \E r \in randInt(MinPort, MaxPort) : port' = [port EXCEPT ![p] = r]
    /\ pc' = [pc EXCEPT ![p] = "runLongTest"]
    /\ UNCHANGED <<config, globals, engine, containerID, output, ip, err,
                   started, ret, cmds, ops, probe, retry>>

\* runLongTest: DockerMachineAvailable = false
runLongTest_reset(p) ==
    /\ pc[p] = "runLongTest"
    /\ DockerMachineAvailable' = FALSE
    /\ pc' = [pc EXCEPT ![p] = "haveDockerMachine"]
    /\ UNCHANGED <<config, Boot2DockerAvailable, engine, locals, ret, cmds,
                   ops>>

\* A slip: a machine that does not start ends the call with an error.
runLongTest_started_fatal(p, ok) ==
    IF ok THEN /\ pc' = [pc EXCEPT ![p] = "haveImage"]
               /\ UNCHANGED <<ret, err>>
    ELSE /\ err' = [err EXCEPT ![p] = "start machine"]
         /\ Return(p, << >>, << >>, "start machine")

\* runLongTest: if !startDockerMachine() { log.Printf(...) }, and on to
\* haveImage
runLongTest_started(p, ok) ==
    /\ pc' = [pc EXCEPT ![p] = "haveImage"]
    /\ UNCHANGED <<ret, err>>

\* runLongTest: the machine is found and started, or docker is looked for
runLongTest_machine(p) ==
    /\ pc[p] = "haveDockerMachine"
    /\ IF env.haveDockerMachine
       THEN /\ DockerMachineAvailable' = TRUE
            /\ \E ok \in BOOLEAN :
                 /\ started' = [started EXCEPT ![p] =
                                   IF ok THEN "ok" ELSE "failed"]
                 /\ runLongTest_started(p, ok)
       ELSE IF ~env.haveDocker
       THEN /\ err' = [err EXCEPT ![p] = "no docker"]
            /\ Return(p, << >>, << >>, "no docker")
            /\ UNCHANGED <<DockerMachineAvailable, started>>
       ELSE /\ pc' = [pc EXCEPT ![p] = "haveImage"]
            /\ UNCHANGED <<DockerMachineAvailable, started, ret, err>>
    /\ UNCHANGED <<config, Boot2DockerAvailable, engine, port, containerID,
                   output, ip, cmds, ops, probe, retry>>

\* History: docker images has been run, and printed the listing or failed.
Listed(o, ok) ==
    [o EXCEPT !.listed = IF ok THEN "ok" ELSE "failed",
              !.listing = IF ok THEN Listing(images) ELSE << >>]

\* History: docker pull has been run, and succeeded or failed.
Pulled(o, ok) == [o EXCEPT !.pulled = IF ok THEN "ok" ELSE "failed"]

\* haveImage, and what runLongTest does with its answer
haveImage(p) ==
    /\ pc[p] = "haveImage"
    /\ Invoke(p, runDockerCommand("images", << >>))
    /\ \E ok \in BOOLEAN :
         /\ output' = [output EXCEPT ![p] = Listed(@, ok)]
         /\ IF ~ok
            THEN /\ err' = [err EXCEPT ![p] = "images"]
                 /\ Return(p, << >>, << >>, "images")
            ELSE /\ pc' = [pc EXCEPT ![p] =
                              IF Contains(Listing(images), Image)
                              THEN "run" ELSE "Pull"]
                 /\ UNCHANGED <<ret, err>>
    /\ UNCHANGED <<config, globals, engine, port, containerID, ip, started,
                   ops, probe, retry>>

\* Pull, and what runLongTest does with its answer
Pull(p) ==
    /\ pc[p] = "Pull"
    /\ Invoke(p, runDockerCommand("pull", Image))
    /\ \E ok \in BOOLEAN :
         /\ output' = [output EXCEPT ![p] = Pulled(@, ok)]
         /\ IF ok
            THEN /\ images' = images \cup {Image}
                 /\ pc' = [pc EXCEPT ![p] = "run"]
                 /\ UNCHANGED <<ret, err>>
            ELSE /\ err' = [err EXCEPT ![p] = "pull"]
                 /\ Return(p, << >>, << >>, "pull")
                 /\ UNCHANGED images
    /\ UNCHANGED <<config, globals, containers, port, containerID, ip,
                   started, ops, probe, retry>>


\* ---------------------------------------------- current generation: launch

\* run: what it returns for an outcome of `docker run`
run(o) ==
    IF ~o.exit THEN [containerID |-> << >>, err |-> "docker run"]
    ELSE LET id == TrimSpace(o.stdout) IN
         IF ~validID(id) THEN [containerID |-> << >>, err |-> "invalid id"]
         ELSE IF id = << >> THEN [containerID |-> << >>, err |-> "empty output"]
         ELSE [containerID |-> id, err |-> ""]

\* setupContainer: start(), that is run with the arguments of
\* SetupContainerWithEnv, and the check of its error
setupContainer_start(p) ==
    /\ pc[p] = "run"
    /\ Invoke(p, runDockerCommand("run", forward(port[p], ContainerPort)))
    /\ \E o \in RunOutcomes(p) :
         /\ containers' = [containers EXCEPT ![p] = o.state]
         /\ output' = [output EXCEPT ![p].ran = TRUE, ![p].exit = o.exit,
                                     ![p].stdout = o.stdout]
         /\ IF run(o).err /= ""
            THEN /\ err' = [err EXCEPT ![p] = run(o).err]
                 /\ Return(p, << >>, << >>, run(o).err)
                 /\ UNCHANGED containerID
            ELSE /\ containerID' = [containerID EXCEPT ![p] = run(o).containerID]
                 /\ pc' = [pc EXCEPT ![p] = "lookup"]
                 /\ UNCHANGED <<ret, err>>
    /\ UNCHANGED <<config, globals, images, port, ip, started, ops, probe,
                   retry>>

\* What `docker-machine ip` can print, and whether it failed.
MachineOutcomes ==
    {[ok |-> FALSE, out |-> << >>],
     [ok |-> TRUE, out |-> MachineIP \o <<"\n">>],
     [ok |-> TRUE, out |-> << >>]}

\* A slip: the address probed is made of the container's own port.
lookup_probe_containerPort(p, host) ==
    /\ ip' = [ip EXCEPT ![p] = host]
    /\ probe' = [probe EXCEPT ![p] =
                    [NoProbe EXCEPT !.addr = Addr(host, ContainerPort)]]
    /\ pc' = [pc EXCEPT ![p] = "AwaitReachable"]
    /\ UNCHANGED <<err, ret>>

\* lookup, from an address in hand to the call of AwaitReachable
lookup_probe(p, host) ==
    /\ ip' = [ip EXCEPT ![p] = host]
    /\ probe' = [probe EXCEPT ![p] =
                    [NoProbe EXCEPT !.addr = Addr(host, port[p])]]
    /\ pc' = [pc EXCEPT ![p] = "AwaitReachable"]
    /\ UNCHANGED <<err, ret>>

\* A slip: the error of lookup is returned at once, with no rollback.
lookup_fail_noRollback(p, host, e) ==
    /\ ip' = [ip EXCEPT ![p] = host]
    /\ err' = [err EXCEPT ![p] = e]
    /\ Return(p, << >>, << >>, e)
    /\ UNCHANGED probe

\* lookup fails: setupContainer goes on to c.KillRemove()
lookup_fail(p, host, e) ==
    /\ ip' = [ip EXCEPT ![p] = host]
    /\ err' = [err EXCEPT ![p] = e]
    /\ pc' = [pc EXCEPT ![p] = "Kill"]
    /\ UNCHANGED <<probe, ret>>

\* lookup: the choice of where the address comes from
lookup(p) ==
    /\ pc[p] = "lookup"
    /\ IF DockerMachineAvailable
       THEN \E o \in MachineOutcomes :
              IF o.ok THEN lookup_probe(p, TrimSpace(o.out))
              ELSE lookup_fail(p, TrimSpace(o.out), "error getting IP")
       ELSE IF BindDockerToLocalhost /= << >>
       THEN lookup_probe(p, Loopback)
       ELSE /\ pc' = [pc EXCEPT ![p] = "IP"]
            /\ UNCHANGED <<ip, err, probe, ret>>
    /\ UNCHANGED <<config, globals, engine, port, containerID, output,
                   started, cmds, ops, retry>>

\* What `docker inspect` can give: a failure, text that is no JSON array, or
\* an array of containers.
InspectOutcomes ==
    {[ok |-> FALSE, json |-> FALSE, c |-> << >>],
     [ok |-> TRUE, json |-> FALSE, c |-> << >>],
     [ok |-> TRUE, json |-> TRUE, c |-> << >>],
     [ok |-> TRUE, json |-> TRUE, c |-> <<[IPAddress |-> << >>]>>],
     [ok |-> TRUE, json |-> TRUE, c |-> <<[IPAddress |-> ContainerIP]>>]}

\* IP: what it returns for an outcome of `docker inspect`
IP(o) ==
    IF ~o.ok THEN [ip |-> << >>, err |-> "inspect"]
    ELSE IF ~o.json THEN [ip |-> << >>, err |-> "decode"]
    ELSE IF Len(o.c) = 0 THEN [ip |-> << >>, err |-> "no output"]
    ELSE IF o.c[1].IPAddress /= << >> THEN [ip |-> o.c[1].IPAddress, err |-> ""]
    ELSE [ip |-> << >>, err |-> "no IP"]

\* lookup: ip, err = c.IP()
lookup_IP(p) ==
    /\ pc[p] = "IP"
    /\ Invoke(p, Command("inspect", containerID[p]))
    /\ \E o \in InspectOutcomes :
         IF IP(o).err = "" THEN lookup_probe(p, IP(o).ip)
         ELSE lookup_fail(p, IP(o).ip, "error getting IP")
    /\ UNCHANGED <<config, globals, engine, port, containerID, output,
                   started, ops, retry>>

\* A slip: the deadline is never looked at.
Before_always(now, done) == TRUE

\* A slip: the loop goes on at the deadline itself.
Before_orAt(now, done) == now <= done

\* time.Now().Before(done)
Before(now, done) == now < done

\* AwaitReachable: one turn of the loop.  The deadline has not passed, a
\* connection is attempted; it succeeds, or the loop sleeps one tick.
AwaitReachable_dial(p) ==
    /\ pc[p] = "AwaitReachable"
    /\ Before(probe[p].elapsed, MaxWaitTicks)
    /\ \E d \in 0..MaxDialTicks, connected \in BOOLEAN :
         IF connected
         THEN /\ probe' = [probe EXCEPT ![p].elapsed = @ + d, ![p].ok = TRUE,
                                        ![p].last = probe[p].elapsed,
                                        ![p].connected = TRUE]
              /\ pc' = [pc EXCEPT ![p] = "reachable"]
         ELSE /\ probe' = [probe EXCEPT ![p].elapsed = @ + d + 1,
                                        ![p].last = probe[p].elapsed]
              /\ UNCHANGED pc
    /\ UNCHANGED <<config, globals, engine, port, containerID, output, ip,
                   err, started, ret, cmds, ops, retry>>

\* AwaitReachable: the deadline has passed
AwaitReachable_timeout(p) ==
    /\ pc[p] = "AwaitReachable"
    /\ ~Before(probe[p].elapsed, MaxWaitTicks)
    /\ err' = [err EXCEPT ![p] = "unreachable"]
    /\ pc' = [pc EXCEPT ![p] = "Kill"]
    /\ UNCHANGED <<config, globals, engine, port, containerID, output, ip,
                   started, ret, cmds, ops, probe, retry>>

\* setupContainer: return c, ip, nil
setupContainer_return(p) ==
    /\ version = "current"
    /\ pc[p] = "reachable"
    /\ Return(p, containerID[p], ip[p], "")
    /\ UNCHANGED <<config, globals, engine, locals, cmds, ops>>


\* ---------------------------------------------------------------- teardown

\* KillContainer: whether it runs docker kill at all
KillContainer(container) == container /= << >>

\* KillContainer of the earlier generation: always
KillContainerT(container) == TRUE

\* A slip: Remove never runs docker rm.
Remove_never(c) == TRUE

\* A slip: Remove forgets the Debug flag.
Remove_ignoresDebug(c) == c = <<"n", "i", "l">>

\* Remove: whether it returns nil without running docker rm
Remove(c) == Debug \/ c = <<"n", "i", "l">>

\* Remove of the earlier generation
RemoveT(c) == Debug

\* The handle KillRemove is called on: c of setupContainer during a rollback,
\* the returned handle when the caller tears down.
Receiver(p) == IF ret[p] = NoRet THEN containerID[p] ELSE ret[p].c

Context(p) == IF ret[p] = NoRet THEN "rollback" ELSE "caller"

Teardowns(p) ==
    Cardinality({i \in DOMAIN ops[p] :
                    ops[p][i].op = "Kill" /\ ops[p][i].ctx = "caller"})

\* History: KillRemove called op on its receiver; the engine was run or not,
\* and the call failed or not.
Op(p, name, ran, failed) ==
    ops' = [ops EXCEPT ![p] = Append(@, [op |-> name, h |-> Receiver(p),
                                         ran |-> ran, failed |-> failed,
                                         ctx |-> Context(p)])]

\* KillRemove is over.  In setupContainer its result is dropped and the
\* error of lookup returned with an empty handle; in the earlier generation
\* the test is skipped (setupContainer) or failed (cleanupAndDie); a caller
\* has it back.
KillRemove_done(p) ==
    IF ret[p] /= NoRet THEN /\ pc' = [pc EXCEPT ![p] = "returned"]
                            /\ UNCHANGED ret
    ELSE IF version = "current" THEN Return(p, << >>, << >>, err[p])
    ELSE /\ ret' = [ret EXCEPT ![p] =
                       [how |-> IF err[p] \in {"error getting IP", "unreachable"}
                                THEN "skip" ELSE "fatal",
                        c |-> << >>, ip |-> << >>, port |-> port[p],
                        err |-> err[p]]]
         /\ pc' = [pc EXCEPT ![p] = "returned"]

\* A slip: a docker kill that failed is tried again.
KillRemove_afterKill_retry(p, failed) ==
    IF failed THEN UNCHANGED <<pc, ret>>
    ELSE /\ pc' = [pc EXCEPT ![p] = "Remove"]
         /\ UNCHANGED ret

\* A slip: Remove is called whatever Kill returned.
KillRemove_afterKill_always(p, failed) ==
    /\ pc' = [pc EXCEPT ![p] = "Remove"]
    /\ UNCHANGED ret

\* KillRemove: if err := c.Kill(); err != nil { return err }
KillRemove_afterKill(p, failed) ==
    IF failed THEN KillRemove_done(p)
    ELSE /\ pc' = [pc EXCEPT ![p] = "Remove"]
         /\ UNCHANGED ret

\* KillRemove: c.Kill(), and the return of its error
KillRemove_Kill(p) ==
    /\ pc[p] = "Kill"
    /\ IF (version = "current" /\ KillContainer(Receiver(p)))
          \/ (version = "legacy" /\ KillContainerT(Receiver(p)))
       THEN /\ Invoke(p, Command("kill", Receiver(p)))
            /\ \E ok \in {b \in BOOLEAN : b => CanKill(Receiver(p))} :
                 /\ containers' = IF ok THEN Killed(Receiver(p)) ELSE containers
                 /\ Op(p, "Kill", TRUE, ~ok)
                 /\ KillRemove_afterKill(p, ~ok)
       ELSE /\ Op(p, "Kill", FALSE, FALSE)
            /\ KillRemove_afterKill(p, FALSE)
            /\ UNCHANGED <<cmds, containers>>
    /\ UNCHANGED <<config, globals, images, locals>>

\* KillRemove: c.Remove()
KillRemove_Remove(p) ==
    /\ pc[p] = "Remove"
    /\ IF (version = "current" /\ Remove(Receiver(p)))
          \/ (version = "legacy" /\ RemoveT(Receiver(p)))
       THEN /\ Op(p, "Remove", FALSE, FALSE)
            /\ UNCHANGED <<cmds, containers>>
       ELSE /\ Invoke(p, Command("rm", Receiver(p)))
            /\ \E ok \in {b \in BOOLEAN : b => CanRemove(Receiver(p))} :
                 /\ containers' = IF ok THEN Removed(Receiver(p)) ELSE containers
                 /\ Op(p, "Remove", TRUE, ~ok)
    /\ KillRemove_done(p)
    /\ UNCHANGED <<config, globals, images, locals>>

\* The caller of a provisioning call tears down the handle it was given.
Caller_KillRemove(p) ==
    /\ pc[p] = "returned"
    /\ ret[p].how = "return"
    /\ Teardowns(p) < MaxTeardowns
    /\ pc' = [pc EXCEPT ![p] = "Kill"]
    /\ UNCHANGED <<config, globals, engine, locals, ret, cmds, ops>>

\* ------------------------------------------------------- earlier generation

\* t.SkipNow() and t.Fatal(): the test function ends there
Quit(p, how, e) ==
    /\ ret' = [ret EXCEPT ![p] = [how |-> how, c |-> << >>, ip |-> << >>,
                                  port |-> port[p], err |-> e]]
    /\ pc' = [pc EXCEPT ![p] = "returned"]

\* SetupPostgreSQLContainer, up to the call of setupContainer
SetupPostgreSQLContainer(p) ==
    /\ version = "legacy"
    /\ pc[p] = "idle"
    /\ \E r \in randInt(MinPort, MaxPort) : port' = [port EXCEPT ![p] = r]
    /\ pc' = [pc EXCEPT ![p] = "runLongTestT"]
    /\ UNCHANGED <<config, globals, engine, containerID, output, ip, err,
                   started, ret, cmds, ops, probe, retry>>

\* runLongTest(t, image): Boot2DockerAvailable = false, then testing.Short()
runLongTestT_reset(p) ==
    /\ pc[p] = "runLongTestT"
    /\ Boot2DockerAvailable' = FALSE
    /\ IF env.short THEN Quit(p, "skip", "short")
       ELSE /\ pc' = [pc EXCEPT ![p] = "haveBoot2Docker"]
            /\ UNCHANGED ret
    /\ UNCHANGED <<config, DockerMachineAvailable, engine, locals, cmds, ops>>

\* runLongTest(t, image): boot2docker is found and started, or docker is
\* looked for
runLongTestT_machine(p) ==
    /\ pc[p] = "haveBoot2Docker"
    /\ IF env.haveBoot2Docker
       THEN \E ok \in BOOLEAN :
              /\ Boot2DockerAvailable' = ok
              /\ started' = [started EXCEPT ![p] = IF ok THEN "ok" ELSE "failed"]
              /\ IF ok THEN /\ pc' = [pc EXCEPT ![p] = "haveImageT"]
                            /\ UNCHANGED ret
                 ELSE Quit(p, "skip", "boot2docker")
       ELSE /\ IF ~env.haveDocker THEN Quit(p, "skip", "no docker")
               ELSE /\ pc' = [pc EXCEPT ![p] = "haveImageT"]
                    /\ UNCHANGED ret
            /\ UNCHANGED <<Boot2DockerAvailable, started>>
    /\ UNCHANGED <<config, DockerMachineAvailable, engine, port, containerID,
                   output, ip, err, cmds, ops, probe, retry>>

\* haveImage, and what runLongTest(t, image) does with its answer
haveImageT(p) ==
    /\ pc[p] = "haveImageT"
    /\ Invoke(p, runDockerCommandT("images", << >>))
    /\ \E ok \in BOOLEAN :
         /\ output' = [output EXCEPT ![p] = Listed(@, ok)]
         /\ IF ~ok THEN Quit(p, "skip", "images")
            ELSE /\ pc' = [pc EXCEPT ![p] =
                              IF Contains(Listing(images), Image)
                              THEN "runT" ELSE "PullT"]
                 /\ UNCHANGED ret
    /\ UNCHANGED <<config, globals, engine, port, containerID, ip, err,
                   started, probe, retry, ops>>

\* Pull, and what runLongTest(t, image) does with its answer
PullT(p) ==
    /\ pc[p] = "PullT"
    /\ Invoke(p, runDockerCommandT("pull", Image))
    /\ \E ok \in BOOLEAN :
         /\ output' = [output EXCEPT ![p] = Pulled(@, ok)]
         /\ IF ok
            THEN /\ images' = images \cup {Image}
                 /\ pc' = [pc EXCEPT ![p] = "runT"]
                 /\ UNCHANGED ret
            ELSE /\ Quit(p, "skip", "pull")
                 /\ UNCHANGED images
    /\ UNCHANGED <<config, globals, containers, port, containerID, ip, err,
                   started, probe, retry, ops>>

\* run of the earlier generation: no pattern, only the empty output refused
runT(o) ==
    IF ~o.exit THEN [containerID |-> << >>, err |-> "docker run"]
    ELSE LET id == TrimSpace(o.stdout) IN
         IF id = << >> THEN [containerID |-> << >>, err |-> "empty output"]
         ELSE [containerID |-> id, err |-> ""]

\* setupContainer(t, ...): start() and t.Fatalf on its error
setupContainerT_start(p) ==
    /\ pc[p] = "runT"
    /\ Invoke(p, runDockerCommandT("run", <<port[p], ":", ContainerPort>>))
    /\ \E o \in RunOutcomes(p) :
         /\ containers' = [containers EXCEPT ![p] = o.state]
         /\ output' = [output EXCEPT ![p].ran = TRUE, ![p].exit = o.exit,
                                     ![p].stdout = o.stdout]
         /\ IF runT(o).err /= ""
            THEN /\ Quit(p, "fatal", runT(o).err)
                 /\ UNCHANGED containerID
            ELSE /\ containerID' = [containerID EXCEPT ![p] = runT(o).containerID]
                 /\ pc' = [pc EXCEPT ![p] = "lookupT"]
                 /\ UNCHANGED ret
    /\ UNCHANGED <<config, globals, images, port, ip, err, started, ops,
                   probe, retry>>

\* lookup of the earlier generation: boot2docker ip, or c.IP().  Its
\* netutil.AwaitReachable is the function AwaitReachable was copied from.
lookupT(p) ==
    /\ pc[p] = "lookupT"
    /\ IF Boot2DockerAvailable
       THEN \E o \in MachineOutcomes :
              IF o.ok THEN lookup_probe(p, TrimSpace(o.out))
              ELSE lookup_fail(p, TrimSpace(o.out), "error getting IP")
       ELSE /\ pc' = [pc EXCEPT ![p] = "IP"]
            /\ UNCHANGED <<ip, err, probe, ret>>
    /\ UNCHANGED <<config, globals, engine, port, containerID, output,
                   started, cmds, ops, retry>>

\* The retry budget SetupPostgreSQLContainer passes to sqlExecRetry (50),
\* scaled down to this many tries.
PresetMaxTry == 3

\* SetupPostgreSQLContainer after setupContainer: sql.Open, then the call of
\* sqlExecRetry, or cleanupAndDie
SetupPostgreSQLContainer_open(p) ==
    /\ version = "legacy"
    /\ pc[p] = "reachable"
    /\ \E ok \in BOOLEAN :
         IF ok
         THEN /\ retry' = [retry EXCEPT ![p] = [NoRetry EXCEPT !.maxTry = PresetMaxTry,
                                                               !.state = "called"]]
              /\ pc' = [pc EXCEPT ![p] = "sqlExecRetry"]
              /\ UNCHANGED err
         ELSE /\ err' = [err EXCEPT ![p] = "open rootdb"]
              /\ pc' = [pc EXCEPT ![p] = "Kill"]
              /\ UNCHANGED retry
    /\ UNCHANGED <<config, globals, engine, port, containerID, output, ip,
                   started, ret, cmds, ops, probe>>

\* The largest retry budget of a direct call of sqlExecRetry.  Intervals are
\* integers of milliseconds; the int64 of time.Duration would wrap only at
\* 100 ms * 2^37, after 37 sleeps have been slept in full.
MaxTry == 4

\* A direct call of sqlExecRetry, with any retry budget.
Call_sqlExecRetry(p) ==
    /\ version = "legacy"
    /\ pc[p] = "idle"
    /\ \E n \in (0 - 1)..MaxTry :
         retry' = [retry EXCEPT ![p] = [NoRetry EXCEPT !.maxTry = n,
                                                       !.state = "called",
                                                       !.direct = TRUE]]
    /\ pc' = [pc EXCEPT ![p] = "sqlExecRetry"]
    /\ UNCHANGED <<config, globals, engine, port, containerID, output, ip,
                   err, started, ret, cmds, ops, probe>>

HundredMilliseconds == 100

\* sqlExecRetry is over: its caller goes on
sqlExecRetry_return(p, r) ==
    /\ retry' = [retry EXCEPT ![p] = r]
    /\ IF r.direct
       THEN /\ pc' = [pc EXCEPT ![p] = "retried"]
            /\ UNCHANGED <<ret, err>>
       ELSE IF r.state = "ok"
       THEN /\ ret' = [ret EXCEPT ![p] = [how |-> "return", c |-> containerID[p],
                                          ip |-> ip[p], port |-> port[p],
                                          err |-> ""]]
            /\ pc' = [pc EXCEPT ![p] = "returned"]
            /\ UNCHANGED err
       ELSE /\ err' = [err EXCEPT ![p] = "create database"]
            /\ pc' = [pc EXCEPT ![p] = "Kill"]
            /\ UNCHANGED ret

\* A slip: a budget of zero is let through.
NoTry_negative(maxTry) == maxTry < 0

\* sqlExecRetry: maxTry <= 0
NoTry(maxTry) == maxTry <= 0

\* sqlExecRetry: the check of maxTry, and the locals
sqlExecRetry_enter(p) ==
    /\ pc[p] = "sqlExecRetry"
    /\ IF NoTry(retry[p].maxTry)
       THEN sqlExecRetry_return(p, [retry[p] EXCEPT !.state = "did not try"])
       ELSE /\ retry' = [retry EXCEPT ![p].interval = HundredMilliseconds,
                                      ![p].try = 0, ![p].state = "loop"]
            /\ pc' = [pc EXCEPT ![p] = "Exec"]
            /\ UNCHANGED <<ret, err>>
    /\ UNCHANGED <<config, globals, engine, port, containerID, output, ip,
                   started, cmds, ops, probe>>

\* sqlExecRetry: result, err = db.Exec(stmt)
Exec(r, ok) ==
    [r EXCEPT !.results = Append(@, ok),
              !.err = IF ok THEN 0 ELSE Len(r.results) + 1]

\* A slip: the loop ends one try late.
LastTry_late(r) == r.try = r.maxTry + 1

\* sqlExecRetry: try == maxTry, after try++
LastTry(r) == r.try = r.maxTry

\* A slip: the interval grows by its first value instead of doubling.
Backoff_linear(r) ==
    [r EXCEPT !.sleeps = Append(@, r.interval),
              !.interval = @ + HundredMilliseconds]

\* sqlExecRetry: time.Sleep(interval) and interval *= 2
Backoff(r) == [r EXCEPT !.sleeps = Append(@, r.interval), !.interval = @ * 2]

\* sqlExecRetry: one turn of the loop.  db.Exec succeeds and the result is
\* returned; or it fails, and the loop ends at the last try, or sleeps and
\* doubles the interval.
sqlExecRetry_Exec(p) ==
    /\ pc[p] = "Exec"
    /\ \E ok \in BOOLEAN :
         LET r == Exec(retry[p], ok)
             t == [r EXCEPT !.try = @ + 1]
         IN
         IF r.err = 0 THEN sqlExecRetry_return(p, [r EXCEPT !.state = "ok"])
         ELSE IF LastTry(t)
         THEN sqlExecRetry_return(p, [t EXCEPT !.state = "failed",
                                               !.times = t.try,
                                               !.cause = t.err])
         ELSE /\ retry' = [retry EXCEPT ![p] = Backoff(t)]
              /\ UNCHANGED <<pc, ret, err>>
    /\ UNCHANGED <<config, globals, engine, port, containerID, output, ip,
                   started, cmds, ops, probe>>

\* ------------------------------------------------------------ specification

ConfigOf(v) ==
    IF v = "current"
    THEN [haveDockerMachine : BOOLEAN, haveDocker : BOOLEAN,
          haveBoot2Docker : {FALSE}, short : {FALSE}]
    ELSE [haveDockerMachine : {FALSE}, haveDocker : BOOLEAN,
          haveBoot2Docker : BOOLEAN, short : BOOLEAN]

InitCall ==
    /\ DockerMachineAvailable = FALSE
    /\ Boot2DockerAvailable = FALSE
    /\ containers = [p \in Procs |-> "absent"]
    /\ pc = [p \in Procs |-> "idle"]
    /\ port = [p \in Procs |-> 0]
    /\ containerID = [p \in Procs |-> << >>]
    /\ output = [p \in Procs |-> NoOutput]
    /\ ip = [p \in Procs |-> << >>]
    /\ err = [p \in Procs |-> ""]
    /\ started = [p \in Procs |-> "none"]
    /\ ret = [p \in Procs |-> NoRet]
    /\ cmds = [p \in Procs |-> << >>]
    /\ ops = [p \in Procs |-> << >>]
    /\ probe = [p \in Procs |-> NoProbe]
    /\ retry = [p \in Procs |-> NoRetry]

Init ==
    /\ version \in {"current", "legacy"}
    /\ Debug \in BOOLEAN
    /\ BindDockerToLocalhost \in
         IF version = "current" THEN {<< >>, <<"1">>} ELSE {<< >>}
    /\ env \in ConfigOf(version)
    /\ images \in {{}, {Image}, {OtherImage}}
    /\ InitCall

\* The steps of one provisioning call.
Provision(p) ==
    \/ SetupContainerWithEnv(p)
    \/ runLongTest_reset(p)
    \/ runLongTest_machine(p)
    \/ haveImage(p)
    \/ Pull(p)
    \/ setupContainer_start(p)
    \/ lookup(p)
    \/ lookup_IP(p)
    \/ AwaitReachable_dial(p)
    \/ AwaitReachable_timeout(p)
    \/ setupContainer_return(p)
    \/ KillRemove_Kill(p)
    \/ KillRemove_Remove(p)

\* The steps of the earlier generation's PostgreSQL preset and retrier.
ProvisionT(p) ==
    \/ SetupPostgreSQLContainer(p)
    \/ runLongTestT_reset(p)
    \/ runLongTestT_machine(p)
    \/ haveImageT(p)
    \/ PullT(p)
    \/ setupContainerT_start(p)
    \/ lookupT(p)
    \/ SetupPostgreSQLContainer_open(p)
    \/ Call_sqlExecRetry(p)
    \/ sqlExecRetry_enter(p)
    \/ sqlExecRetry_Exec(p)

\* One caller: a call, then the teardown of what it returned (§5: a single
\* caller-driven execution per provisioning request).
Next ==
    \/ Provision(1)
    \/ ProvisionT(1)
    \/ Caller_KillRemove(1)
    \/ ContainerExits(1)

Spec == Init /\ [][Next]_vars

\* The same caller, when every step of its call that can be taken is taken
\* in the end: the goroutine runs on, and each command it runs, each
\* connection attempt, each statement and each sleep returns.
SpecFair == Init /\ [][Next]_vars /\ WF_vars(Provision(1) \/ ProvisionT(1))

\* Two goroutines of one process provision at the same time: while the
\* first call runs, a second one enters and goes through its preflight.
Preflight(p) ==
    \/ SetupContainerWithEnv(p)
    \/ runLongTest_reset(p)
    \/ runLongTest_machine(p)

InitConcurrent == Init /\ version = "current"

NextConcurrent == Provision(1) \/ Preflight(2)

SpecConcurrent == InitConcurrent /\ [][NextConcurrent]_vars

\* ------------------------------------------------------------------ claims

\* The call has ended with an error (returned, or the test skipped or failed).
Failed(p) == ret[p] /= NoRet /\ ret[p].err /= ""

\* run gave the call a handle.
HasHandle(p) == containerID[p] /= << >>

\* The Kill and Remove calls of the rollback of call p.
RollbackOp(o) == o.ctx = "rollback"

Rollback(p) == SelectSeq(ops[p], RollbackOp)

C2_GoneAfterFailure ==
    \A p \in Procs :
        (version = "current" /\ Failed(p) /\ HasHandle(p)) =>
            containers[p] = "absent"

\* C2, amended: when a call that got a handle ends with an error and the kill
\* of its rollback returned no error, Remove follows; with Debug unset it runs
\* docker rm and, if that returns no error, the container no longer exists;
\* with Debug set docker rm is not run and the container stays, stopped.
C2_GoneUnlessDebug ==
    \A p \in Procs :
        (Failed(p) /\ HasHandle(p) /\ Len(Rollback(p)) >= 1
                   /\ ~Rollback(p)[1].failed) =>
            /\ Len(Rollback(p)) = 2
            /\ Rollback(p)[2].op = "Remove"
            /\ Rollback(p)[2].ran = ~Debug
            /\ IF Debug THEN containers[p] = "exited"
               ELSE ~Rollback(p)[2].failed => containers[p] = "absent"

C2_Witness ==
    \E p \in Procs :
        /\ version = "current" /\ ~Debug
        /\ Failed(p) /\ HasHandle(p)
        /\ Len(Rollback(p)) = 2 /\ ~Rollback(p)[2].failed
        /\ containers[p] = "absent"

\* C3: a call that got a handle from run and ends with an error (address
\* discovery, probe timeout, sql.Open or retry exhaustion in the PostgreSQL
\* preset) has called Kill on that handle, and then Remove if and only if
\* Kill returned no error, before the error reaches the caller.
C3_TeardownBeforeError ==
    \A p \in Procs :
        (Failed(p) /\ HasHandle(p)) =>
            /\ Len(Rollback(p)) >= 1
            /\ Len(Rollback(p)) = IF Rollback(p)[1].failed THEN 1 ELSE 2
            /\ Rollback(p)[1].op = "Kill"
            /\ Rollback(p)[1].h = containerID[p]
            /\ Len(Rollback(p)) = 2 =>
                  /\ Rollback(p)[2].op = "Remove"
                  /\ Rollback(p)[2].h = containerID[p]

C3_Witness ==
    \E p \in Procs :
        /\ version = "legacy"
        /\ Failed(p) /\ HasHandle(p)
        /\ retry[p].state = "failed"
        /\ Len(Rollback(p)) = 2

\* C4, as stated: once a provisioning call of the current generation has
\* returned, a container it started that is still running has its handle in
\* the hands of the caller.
C4_RunningHandleReturned ==
    \A p \in Procs :
        (version = "current" /\ ret[p] /= NoRet /\ containers[p] = "running") =>
            ret[p].c = ContainerName(p)

\* C5, as stated: Kill and Remove called on the empty handle run no engine
\* command and return no error.
C5_EmptyHandleNoOp ==
    \A p \in Procs : \A i \in DOMAIN ops[p] :
        ops[p][i].h = << >> => (~ops[p][i].ran /\ ~ops[p][i].failed)

\* C6: a call returns success only after AwaitReachable has returned success
\* for the address made of the host and the port it returns.
C6_ReturnedAddressProbed ==
    \A p \in Procs :
        (ret[p] /= NoRet /\ ret[p].how = "return" /\ ret[p].err = "") =>
            /\ probe[p].ok
            /\ probe[p].addr = Addr(ret[p].ip, ret[p].port)

C6_Witness ==
    \E p \in Procs :
        /\ version = "current"
        /\ ret[p] /= NoRet /\ ret[p].how = "return" /\ ret[p].err = ""
        /\ probe[p].ok

\* C7, as stated: every engine subcommand of one call goes through the same
\* channel, local or remote, whatever another call does meanwhile.
C7_SameChannel ==
    \A p \in Procs : \A i, j \in DOMAIN cmds[p] :
        cmds[p][i].remote = cmds[p][j].remote

\* The sleeps of sqlExecRetry: 100 ms, doubled each time.
RECURSIVE Doubled(_)
Doubled(k) == IF k = 0 THEN << >> ELSE Append(Doubled(k - 1), 100 * 2 ^ (k - 1))

\* C8: sqlExecRetry with maxTry = n >= 1 that returns success after k failed
\* attempts has k < n, made exactly k + 1 attempts (k failures, then the
\* success) and slept exactly k times, 100 ms, 200 ms, ..., 100 ms * 2^(k-1).
C8_SuccessAfterFailures ==
    \A p \in Procs :
        retry[p].state = "ok" =>
            LET k == Len(retry[p].results) - 1 IN
            /\ retry[p].maxTry >= 1
            /\ k < retry[p].maxTry
            /\ \A i \in 1..k : ~retry[p].results[i]
            /\ retry[p].results[k + 1]
            /\ retry[p].sleeps = Doubled(k)

C8_Witness ==
    \E p \in Procs :
        /\ retry[p].state = "ok"
        /\ retry[p].maxTry = 3
        /\ retry[p].results = <<FALSE, FALSE, TRUE>>
        /\ retry[p].sleeps = <<100, 200>>

\* C9: sqlExecRetry with maxTry = n >= 1 and a statement that always fails
\* makes exactly n attempts and n - 1 sleeps (none after the last attempt),
\* and its error carries the count n and the error of the last attempt.
C9_Exhausted ==
    \A p \in Procs :
        /\ retry[p].state = "failed" =>
              /\ retry[p].maxTry >= 1
              /\ Len(retry[p].results) = retry[p].maxTry
              /\ \A i \in DOMAIN retry[p].results : ~retry[p].results[i]
              /\ retry[p].sleeps = Doubled(retry[p].maxTry - 1)
              /\ retry[p].times = retry[p].maxTry
              /\ retry[p].cause = retry[p].maxTry
        /\ (retry[p].state = "loop"
                /\ \A i \in DOMAIN retry[p].results : ~retry[p].results[i]) =>
              Len(retry[p].results) < retry[p].maxTry

C9_Witness ==
    \E p \in Procs :
        /\ retry[p].direct
        /\ retry[p].state = "failed"
        /\ retry[p].maxTry = 3
        /\ Len(retry[p].sleeps) = 2

\* C10: sqlExecRetry with maxTry <= 0 returns an error, and makes no attempt
\* and no sleep.
C10_NoBudget ==
    \A p \in Procs :
        (retry[p].state /= "none" /\ retry[p].maxTry <= 0) =>
            /\ retry[p].results = << >>
            /\ retry[p].sleeps = << >>
            /\ retry[p].state \in {"called", "did not try"}
            /\ pc[p] = "retried" => retry[p].state = "did not try"

C10_Witness ==
    \E p \in Procs :
        /\ pc[p] = "retried"
        /\ retry[p].maxTry = 0
        /\ retry[p].state = "did not try"

\* C11: AwaitReachable starts no connection attempt at or after the deadline;
\* while no attempt has connected it does not return success; when it has
\* returned and no attempt connected, it returned the timeout error, at a
\* time that is at least maxWait and at most maxWait plus one connection
\* attempt plus one sleep of the loop.
C11_TimeoutAtDeadline ==
    \A p \in Procs :
        /\ probe[p].last < MaxWaitTicks
        /\ ~probe[p].connected => ~probe[p].ok
        /\ (probe[p].addr /= << >> /\ pc[p] /= "AwaitReachable"
                /\ ~probe[p].connected) =>
              /\ err[p] = "unreachable"
              /\ probe[p].elapsed >= MaxWaitTicks
              /\ probe[p].elapsed <= probe[p].last + MaxDialTicks + 1
              /\ probe[p].elapsed <= MaxWaitTicks + MaxDialTicks + 1

C11_Witness ==
    \E p \in Procs :
        /\ err[p] = "unreachable"
        /\ ~probe[p].connected
        /\ probe[p].last = MaxWaitTicks - 1
        /\ probe[p].elapsed = MaxWaitTicks + MaxDialTicks

\* The engine subcommands invoked by the provisioning call itself.
InCall(c) == c.during = "call"

CallCmds(p) == SelectSeq(cmds[p], InCall)

\* The call has left runLongTest's look for docker-machine and docker.
PastPreflight(p) == pc[p] \notin {"idle", "runLongTest", "haveDockerMachine"}

\* C12: a call of the current generation ends its preflight with the error
\* "neither docker nor docker-machine" if and only if neither executable is
\* found; the call has then invoked no engine subcommand and returns an empty
\* handle; and when docker-machine is found and fails to start, the call
\* goes on to the image check.
C12_PreflightFails ==
    \A p \in Procs :
        (version = "current" /\ PastPreflight(p)) =>
            LET none == ~env.haveDockerMachine /\ ~env.haveDocker IN
            /\ none <=> (ret[p] /= NoRet /\ ret[p].err = "no docker")
            /\ none => /\ CallCmds(p) = << >>
                       /\ ret[p].c = << >>
                       /\ containers[p] = "absent"
            /\ started[p] = "failed" =>
                  \/ pc[p] = "haveImage"
                  \/ Len(CallCmds(p)) >= 1 /\ CallCmds(p)[1].cmd = "images"

C12_Witness ==
    \E p \in Procs :
        /\ version = "current"
        /\ ~env.haveDockerMachine /\ ~env.haveDocker
        /\ pc[p] = "returned"
        /\ ret[p].err = "no docker"
        /\ CallCmds(p) = << >>

\* C13, as stated: with BindDockerToLocalhost set, every call of the current
\* generation binds the forwarded port to 127.0.0.1 in the arguments of
\* docker run, probes an address whose host is 127.0.0.1 and, on success,
\* returns 127.0.0.1, docker-machine found or not.
C13_LoopbackResolved ==
    \A p \in Procs :
        (version = "current" /\ BindDockerToLocalhost /= << >>) =>
            /\ \A i \in DOMAIN cmds[p] :
                  cmds[p][i].cmd = "run" => cmds[p][i].arg[1] = Loopback
            /\ probe[p].addr /= << >> => probe[p].addr[1] = Loopback
            /\ (ret[p] /= NoRet /\ ret[p].err = "") => ret[p].ip = Loopback

\* C14, as stated: a call of the current generation that returns no error
\* found or pulled the image, got a handle from run, and had its probe
\* succeed, with no step having raised an error; a call that returns an error
\* returns the empty handle and the empty address; and whenever the kill or
\* the rm of its rollback failed, the error returned is that failure.
C14_NoErrorDiscarded ==
    \A p \in Procs :
        (version = "current" /\ ret[p] /= NoRet) =>
            /\ ret[p].err = "" =>
                  /\ err[p] = ""
                  /\ Contains(Listing(images), Image)
                  /\ validID(containerID[p]) /\ ret[p].c = containerID[p]
                  /\ probe[p].ok
                  /\ Rollback(p) = << >>
            /\ ret[p].err /= "" => (ret[p].c = << >> /\ ret[p].ip = << >>)
            /\ \A i \in DOMAIN Rollback(p) :
                  Rollback(p)[i].failed => ret[p].err = Rollback(p)[i].op

Alphanumeric == Lower \cup Upper \cup Digits

\* C15: in the current generation, a handle returned with no error is not
\* empty, is made of letters and digits only, is the trimmed standard output
\* of a docker run that exited cleanly, and names the container the engine
\* started for the call; and when docker run failed, or its trimmed standard
\* output is empty or has any other character, run gave the empty handle and
\* the call returns an error with the empty handle.
C15_ValidHandle ==
    \A p \in Procs :
        version = "current" =>
            LET id == TrimSpace(output[p].stdout) IN
            /\ (ret[p] /= NoRet /\ ret[p].err = "") =>
                  /\ ret[p].c /= << >>
                  /\ \A i \in DOMAIN ret[p].c : ret[p].c[i] \in Alphanumeric
                  /\ output[p].ran /\ output[p].exit
                  /\ ret[p].c = id
                  /\ ret[p].c = ContainerName(p)
            /\ (output[p].ran
                  /\ (\/ ~output[p].exit
                      \/ id = << >>
                      \/ \E i \in DOMAIN id : id[i] \notin Alphanumeric)) =>
                  /\ containerID[p] = << >>
                  /\ ret[p] /= NoRet
                  /\ ret[p].c = << >>
                  /\ ret[p].err /= ""

C15_Witness ==
    \E p \in Procs :
        /\ version = "current"
        /\ ret[p] /= NoRet /\ ret[p].err = ""
        /\ output[p].stdout = ContainerName(p) \o <<"\n">>
        /\ ret[p].c = ContainerName(p)

\* The external port in a port-forwarding argument, "p:c" or "127.0.0.1:p:c".
ExternalPort(forwarding) == forwarding[Len(forwarding) - 2]

\* C16: the external port of a provisioning call is at least 1024 and less
\* than 49150, and it is one and the same in the port-forwarding argument
\* given to docker run, in the address given to AwaitReachable and in the
\* port the call returns.
C16_SamePort ==
    \A p \in Procs :
        /\ \A i \in DOMAIN cmds[p] :
              cmds[p][i].cmd = "run" =>
                  /\ ExternalPort(cmds[p][i].arg) = port[p]
                  /\ 1024 <= port[p] /\ port[p] < 49150
        /\ probe[p].addr /= << >> => probe[p].addr[3] = port[p]
        /\ ret[p] /= NoRet =>
              /\ ret[p].port = port[p]
              /\ 1024 <= ret[p].port /\ ret[p].port < 49150

C16_Witness ==
    \E p \in Procs :
        /\ version = "current"
        /\ ret[p] /= NoRet /\ ret[p].err = ""
        /\ ret[p].port = 49149
        /\ probe[p].addr[3] = 49149
        /\ \E i \in DOMAIN cmds[p] :
              cmds[p][i].cmd = "run" /\ ExternalPort(cmds[p][i].arg) = 49149

\* The Kill and Remove calls of the caller's teardown of call p.
TeardownOp(o) == o.ctx = "caller"

Teardown(p) == SelectSeq(ops[p], TeardownOp)

\* haveImage's answer for the image, were it asked in this state.
ImagePresent == Contains(Listing(images), Image)

\* C17: when a call has returned a handle with no error and the caller's
\* KillRemove on it has run with Debug unset and a docker kill that
\* succeeded, docker rm -v is run on the same handle and, if it succeeds,
\* the container no longer exists; the teardown runs no engine subcommand
\* but kill and rm, on the returned handle; and no step of a teardown
\* changes whether the image is present.
C17_TeardownRemovesContainerOnly ==
    /\ [](\A p \in Procs :
            /\ \A i \in DOMAIN cmds[p] :
                  cmds[p][i].during = "teardown" =>
                      /\ cmds[p][i].cmd \in {"kill", "rm"}
                      /\ cmds[p][i].arg = ret[p].c
            /\ (ret[p] /= NoRet /\ ret[p].err = "" /\ ~Debug
                    /\ Len(Teardown(p)) >= 2
                    /\ Teardown(p)[1].ran /\ ~Teardown(p)[1].failed) =>
                  /\ Teardown(p)[1].op = "Kill"
                  /\ Teardown(p)[1].h = ret[p].c
                  /\ Teardown(p)[2].op = "Remove"
                  /\ Teardown(p)[2].h = ret[p].c
                  /\ Teardown(p)[2].ran
                  /\ (Len(Teardown(p)) = 2 /\ ~Teardown(p)[2].failed) =>
                        containers[p] = "absent")
    /\ [][\A p \in Procs :
            (During(p) = "teardown" /\ ops'[p] /= ops[p]) =>
                (ImagePresent' <=> ImagePresent)]_vars

C17_Witness ==
    \E p \in Procs :
        /\ version = "current" /\ ~Debug
        /\ ret[p] /= NoRet /\ ret[p].err = "" /\ ret[p].c = ContainerName(p)
        /\ Len(Teardown(p)) = 2
        /\ Teardown(p)[1].ran /\ ~Teardown(p)[1].failed
        /\ Teardown(p)[2].ran /\ ~Teardown(p)[2].failed
        /\ containers[p] = "absent"
        /\ ImagePresent

NamedLike(im) ==
    \E i \in 0..(Len(im) - Len(Image)) : SubSeq(im, i + 1, i + Len(Image)) = Image

ImageLocal == \E im \in images : NamedLike(im)

\* The place of an engine subcommand in the order of a provisioning call.
Rank(cmd) ==
    CASE cmd = "images" -> 1
      [] cmd = "pull" -> 2
      [] cmd = "run" -> 3
      [] cmd = "inspect" -> 4
      [] cmd = "kill" -> 5
      [] cmd = "rm" -> 6

Invoked(p, cmd) == \E i \in DOMAIN CallCmds(p) : CallCmds(p)[i].cmd = cmd

\* C19: within a provisioning call nothing is invoked before the preflight
\* is over; the engine subcommands come in the order images, pull, run,
\* inspect, kill, rm; run is invoked only after the listing, with the image
\* local (found or pulled); AwaitReachable is called only after run gave a
\* valid handle; and the Kill and Remove of a rollback, Kill first, come only
\* after run gave a handle and a later step failed.
C19_StepOrder ==
    \A p \in Procs :
        /\ ~PastPreflight(p) =>
              (CallCmds(p) = << >> /\ probe[p].addr = << >> /\ ops[p] = << >>)
        /\ \A i, j \in DOMAIN CallCmds(p) :
              i < j => Rank(CallCmds(p)[i].cmd) <= Rank(CallCmds(p)[j].cmd)
        /\ Invoked(p, "run") =>
              (CallCmds(p)[1].cmd = "images" /\ ImageLocal)
        /\ probe[p].addr /= << >> =>
              /\ Invoked(p, "run")
              /\ output[p].exit
              /\ containerID[p] /= << >>
              /\ version = "current" => validID(containerID[p])
        /\ (Rollback(p) /= << >> \/ Invoked(p, "kill") \/ Invoked(p, "rm")) =>
              /\ Invoked(p, "run")
              /\ containerID[p] /= << >>
              /\ err[p] /= ""
              /\ Rollback(p)[1].op = "Kill"
              /\ \A i \in DOMAIN Rollback(p) : i > 1 => Rollback(p)[i].op = "Remove"

C19_Witness ==
    \E p \in Procs :
        /\ version = "current"
        /\ ret[p] /= NoRet /\ ret[p].err = "unreachable"
        /\ Len(CallCmds(p)) = 6
        /\ \A i \in 1..6 : Rank(CallCmds(p)[i].cmd) = i

\* The listing has the name of the image in it.
Lists(listing) ==
    \E i \in 0..(Len(listing) - Len(Image)) :
        SubSeq(listing, i + 1, i + Len(Image)) = Image

\* C20: docker pull is invoked only after a listing that succeeded and did
\* not have the image name in it, and after such a listing it is the next
\* thing invoked; after a listing that failed, pull is not invoked; and after
\* a listing or a pull that failed the call has returned an error, run has
\* not been invoked and there is no container.
C20_PullIffAbsent ==
    \A p \in Procs :
        /\ Invoked(p, "pull") =>
              (output[p].listed = "ok" /\ ~Lists(output[p].listing))
        /\ (output[p].listed = "ok" /\ ~Lists(output[p].listing)) =>
              (Invoked(p, "pull") \/ pc[p] \in {"Pull", "PullT"})
        /\ Invoked(p, "pull") <=> output[p].pulled /= "no"
        /\ output[p].listed = "failed" => ~Invoked(p, "pull")
        /\ (output[p].listed = "failed" \/ output[p].pulled = "failed") =>
              /\ ret[p] /= NoRet /\ ret[p].err /= "" /\ ret[p].c = << >>
              /\ ~Invoked(p, "run")
              /\ ~output[p].ran
              /\ containers[p] = "absent"

C20_Witness ==
    \E p \in Procs :
        /\ version = "current"
        /\ output[p].listed = "ok" /\ output[p].listing = << >>
        /\ output[p].pulled = "ok"
        /\ Invoked(p, "pull")
        /\ Invoked(p, "run")

\* How many times the provisioning call of p invoked an engine subcommand.
Count(p, cmd) ==
    Cardinality({i \in DOMAIN CallCmds(p) : CallCmds(p)[i].cmd = cmd})

\* C21: within one provisioning call each of the engine subcommands images,
\* pull, run, inspect, kill and rm is invoked at most once, whether it failed
\* or not, and no other subcommand is invoked; so the call starts at most
\* one container.
C21_AtMostOnce ==
    \A p \in Procs :
        /\ \A i \in DOMAIN CallCmds(p) :
              CallCmds(p)[i].cmd \in
                  {"images", "pull", "run", "inspect", "kill", "rm"}
        /\ \A cmd \in {"images", "pull", "run", "inspect", "kill", "rm"} :
              Count(p, cmd) <= 1

C21_Witness ==
    \E p \in Procs :
        /\ version = "current"
        /\ output[p].ran /\ ~output[p].exit
        /\ ret[p] /= NoRet /\ ret[p].err = "docker run"
        /\ Count(p, "run") = 1
        /\ containers[p] = "exited"

====
